---------------------------- MODULE Spec2Model ----------------------------
(***************************************************************************)
(* GuardedMain of Engine/Source/Runtime/Launch/Private/Launch.cpp: the     *)
(* controller that sequences EnginePreInit, EngineInit, the EngineTick     *)
(* loop and EngineExit (run by the destructor of EngineLoopCleanupGuard).  *)
(*                                                                         *)
(* The four engine-loop operations are opaque: a call and its return are   *)
(* separate steps, so that RequestEngineExit, which any party may call at  *)
(* any time, can interleave with a call in flight and with the             *)
(* controller's own reads of the flag.                                     *)
(***************************************************************************)
EXTENDS Integers, Sequences, FiniteSets

\* Largest number of EngineTick calls explored; Launch.cpp:195 has no cap.
MaxTicks == 3

\* int32 results explored for GEngineLoop.PreInit and Init: -1 .. MaxErrorLevel.
MaxErrorLevel == 7

ErrorLevels == {-1} \cup (0 .. MaxErrorLevel)

\* An int32 / bool that has not been produced yet, and one that has.
None == << >>
Some(v) == << v >>

\* FScopedSlowTask SlowTask(100, ...), EnterProgressFrame(80), (20).
SlowTaskTotal == 100
PreInitShare == 80
InitShare == 20

VARIABLES
    \* build and process configuration, fixed for a run
    shipping,          \* UE_BUILD_SHIPPING
    waitForAttach,     \* -waitforattach or -WaitForDebugger is in CmdLine
    GIsEditor,         \* WITH_EDITOR && GIsEditor
    bIsEmbedded,       \* GUELibraryOverrideSettings.bIsEmbedded
    \* signals set by parties outside the controller
    exitRequested,     \* IsEngineExitRequested()
    debuggerPresent,   \* FPlatformMisc::IsDebuggerPresent()
    \* the controller
    pc,                \* position in GuardedMain
    ErrorLevel,        \* the local int32 ErrorLevel
    returned,          \* the value of the return statement executed
    Scope,             \* FTaskTagScope Scope is alive
    CleanupGuard,      \* EngineLoopCleanupGuard CleanupGuard is alive
    SlowTask,          \* FScopedSlowTask SlowTask, None outside its block
    \* what has been observed of the run so far
    calls,             \* number of invocations per operation
    tickReturns,       \* number of EngineTick calls that have returned
    preInitResult,     \* what EnginePreInit returned
    initResult,        \* what EngineInit / EditorInit returned
    exitAtCheckExit,   \* exitRequested when line 154 was evaluated
    falseReads,        \* loop tests (line 195) that read the flag as false
    trueRead,          \* a loop test (line 195) has read the flag as true
    exitSetAt,         \* pc at which exitRequested became true
    exitSetTick,       \* calls.tick at that moment
    embeddedReads,     \* values of bIsEmbedded read so far, in order
    gatePassed         \* how the debug gate was left: "no", "skipped", "attached"

config == << shipping, waitForAttach, GIsEditor, bIsEmbedded >>
signals == << exitRequested, debuggerPresent >>
locals == << ErrorLevel, returned, Scope, CleanupGuard, SlowTask >>
observed == << calls, tickReturns, preInitResult, initResult, exitAtCheckExit,
               falseReads, trueRead >>
exitHistory == << exitSetAt, exitSetTick >>
reads == << embeddedReads, gatePassed >>
vars == << config, signals, pc, locals, observed, exitHistory, reads >>

Operations == { "preInit", "init", "tick", "engineExit", "loopExit",
                "editorExit", "broadcast" }

Count(op) == [calls EXCEPT ![op] = @ + 1]

Init ==
    /\ shipping \in BOOLEAN
    /\ waitForAttach \in BOOLEAN
    /\ GIsEditor \in BOOLEAN
    /\ bIsEmbedded \in BOOLEAN
    /\ exitRequested = FALSE
    /\ debuggerPresent \in BOOLEAN
    /\ pc = "Start"
    /\ ErrorLevel = None
    /\ returned = None
    /\ Scope = FALSE
    /\ CleanupGuard = FALSE
    /\ SlowTask = None
    /\ calls = [op \in Operations |-> 0]
    /\ tickReturns = 0
    /\ preInitResult = None
    /\ initResult = None
    /\ exitAtCheckExit = None
    /\ falseReads = 0
    /\ trueRead = FALSE
    /\ exitSetAt = "never"
    /\ exitSetTick = 0
    /\ embeddedReads = << >>
    /\ gatePassed = "no"

----------------------------------------------------------------------------
(* Parties outside the controller *)

\* RequestEngineExit called by anyone but the controller: from inside a
\* phase in flight, or from another thread between two controller steps.
RequestEngineExit ==
    /\ pc # "Terminated"
    /\ ~exitRequested
    /\ exitRequested' = TRUE
    /\ exitSetAt' = pc
    /\ exitSetTick' = calls.tick
    /\ UNCHANGED << reads, config, debuggerPresent, pc, locals, observed >>

\* A debugger attaches to the process.
DebuggerAttach ==
    /\ pc # "Terminated"
    /\ ~debuggerPresent
    /\ debuggerPresent' = TRUE
    /\ UNCHANGED << reads, config, exitRequested, pc, locals, observed, exitHistory >>

\* The debugger detaches again.
DebuggerDetach ==
    /\ pc # "Terminated"
    /\ debuggerPresent
    /\ debuggerPresent' = FALSE
    /\ UNCHANGED << reads, config, exitRequested, pc, locals, observed,
                    exitHistory >>

\* The embedding host rewrites GUELibraryOverrideSettings.bIsEmbedded while
\* GuardedMain runs.  Not part of Next: a run of Spec keeps the flag fixed.
HostSetEmbedded ==
    /\ pc # "Terminated"
    /\ bIsEmbedded' = ~bIsEmbedded
    /\ UNCHANGED << reads, shipping, waitForAttach, GIsEditor, signals, pc,
                    locals, observed, exitHistory >>

----------------------------------------------------------------------------
(* GuardedMain, lines 91-138: entry, debug gate, broadcast, guard *)

\* line 95 with the scope written as a temporary, gone before line 97
EnterScope_Temporary ==
    /\ pc = "Start"
    /\ Scope' = FALSE
    /\ pc' = "Gate"
    /\ UNCHANGED << reads, config, signals, ErrorLevel, returned, CleanupGuard,
                    SlowTask, observed, exitHistory >>

\* line 95: FTaskTagScope Scope(ETaskTag::EGameThread)
EnterScope ==
    /\ pc = "Start"
    /\ Scope' = TRUE
    /\ pc' = "Gate"
    /\ UNCHANGED << reads, config, signals, ErrorLevel, returned, CleanupGuard,
                    SlowTask, observed, exitHistory >>

\* lines 97-112 with the test of line 102 never taken: no wait
DebugGate_IgnoreFlag ==
    /\ pc = "Gate"
    /\ pc' = "Broadcast"
    /\ gatePassed' = "skipped"
    /\ UNCHANGED << embeddedReads, config, signals, locals, observed,
                    exitHistory >>

\* lines 97-112: the gate exists unless UE_BUILD_SHIPPING, and waits only
\* when the command line asks for it.
DebugGate ==
    /\ pc = "Gate"
    /\ IF ~shipping /\ waitForAttach
          THEN /\ pc' = "WaitDebugger"
               /\ gatePassed' = gatePassed
          ELSE /\ pc' = "Broadcast"
               /\ gatePassed' = "skipped"
    /\ UNCHANGED << embeddedReads, config, signals, locals, observed,
                    exitHistory >>

\* lines 105-109: while (!IsDebuggerPresent()) Sleep(0.1f); the sleeping
\* iterations change nothing, the loop is left once the signal reads true.
WaitForDebugger ==
    /\ pc = "WaitDebugger"
    /\ debuggerPresent
    /\ gatePassed' = "attached"
    /\ pc' = "Broadcast"
    /\ UNCHANGED << embeddedReads, config, signals, locals, observed,
                    exitHistory >>

\* line 122: FCoreDelegates::GetPreMainInitDelegate().Broadcast()
PreMainBroadcast ==
    /\ pc = "Broadcast"
    /\ calls' = Count("broadcast")
    /\ pc' = "Guard"
    /\ UNCHANGED << reads, config, signals, locals, tickReturns, preInitResult,
                    initResult, exitAtCheckExit, falseReads, trueRead,
                    exitHistory >>

\* lines 127-138 with the guard written as a temporary: it is destroyed at
\* the end of its own statement and runs the exit phase there
AcquireGuard_Temporary ==
    /\ pc = "Guard"
    /\ CleanupGuard' = FALSE
    /\ embeddedReads' = Append(embeddedReads, bIsEmbedded)
    /\ calls' = IF bIsEmbedded THEN calls
                ELSE [calls EXCEPT !.engineExit = @ + 1, !.loopExit = @ + 1]
    /\ exitRequested' = (exitRequested \/ ~bIsEmbedded)
    /\ exitSetAt' = IF exitRequested \/ bIsEmbedded THEN exitSetAt ELSE pc
    /\ exitSetTick' = exitSetTick
    /\ pc' = "PreInit"
    /\ UNCHANGED << gatePassed, config, debuggerPresent, ErrorLevel, returned,
                    Scope, SlowTask, tickReturns, preInitResult, initResult,
                    exitAtCheckExit, falseReads, trueRead >>

\* lines 127-138: the guard object is constructed
AcquireGuard ==
    /\ pc = "Guard"
    /\ CleanupGuard' = TRUE
    /\ pc' = "PreInit"
    /\ UNCHANGED << reads, config, signals, ErrorLevel, returned, Scope, SlowTask,
                    observed, exitHistory >>

----------------------------------------------------------------------------
(* lines 151-157: EnginePreInit and the test after it *)

\* line 151 (lines 40-46): GEngineLoop.PreInit(CmdLine) is entered
EnginePreInitCall ==
    /\ pc = "PreInit"
    /\ calls' = Count("preInit")
    /\ pc' = "InPreInit"
    /\ UNCHANGED << reads, config, signals, locals, tickReturns, preInitResult,
                    initResult, exitAtCheckExit, falseReads, trueRead,
                    exitHistory >>

\* line 151: int32 ErrorLevel = EnginePreInit(CmdLine)
EnginePreInitReturn ==
    /\ pc = "InPreInit"
    /\ \E r \in ErrorLevels :
          /\ ErrorLevel' = Some(r)
          /\ preInitResult' = Some(r)
    /\ pc' = "CheckExit"
    /\ UNCHANGED << reads, config, signals, returned, Scope, CleanupGuard, SlowTask,
                    calls, tickReturns, initResult, exitAtCheckExit,
                    falseReads, trueRead, exitHistory >>

\* lines 154-157 with the exit-request test dropped
CheckExit_IgnoreExitRequest ==
    /\ pc = "CheckExit"
    /\ exitAtCheckExit' = Some(exitRequested)
    /\ IF ErrorLevel # Some(0)
          THEN /\ returned' = ErrorLevel
               /\ pc' = "GuardDtor"
          ELSE /\ returned' = returned
               /\ pc' = "SlowTask"
    /\ UNCHANGED << reads, config, signals, ErrorLevel, Scope, CleanupGuard, SlowTask,
                    calls, tickReturns, preInitResult, initResult,
                    falseReads, trueRead, exitHistory >>

\* lines 154-157 with the ErrorLevel test dropped
CheckExit_IgnoreErrorLevel ==
    /\ pc = "CheckExit"
    /\ exitAtCheckExit' = Some(exitRequested)
    /\ IF exitRequested
          THEN /\ returned' = ErrorLevel
               /\ pc' = "GuardDtor"
          ELSE /\ returned' = returned
               /\ pc' = "SlowTask"
    /\ UNCHANGED << reads, config, signals, ErrorLevel, Scope, CleanupGuard, SlowTask,
                    calls, tickReturns, preInitResult, initResult,
                    falseReads, trueRead, exitHistory >>

\* lines 154-157: if (ErrorLevel != 0 || IsEngineExitRequested()) return ErrorLevel;
CheckExit ==
    /\ pc = "CheckExit"
    /\ exitAtCheckExit' = Some(exitRequested)
    /\ IF ErrorLevel # Some(0) \/ exitRequested
          THEN /\ returned' = ErrorLevel
               /\ pc' = "GuardDtor"
          ELSE /\ returned' = returned
               /\ pc' = "SlowTask"
    /\ UNCHANGED << reads, config, signals, ErrorLevel, Scope, CleanupGuard, SlowTask,
                    calls, tickReturns, preInitResult, initResult,
                    falseReads, trueRead, exitHistory >>

----------------------------------------------------------------------------
(* lines 159-179: the slow task and EngineInit *)

\* line 160: FScopedSlowTask SlowTask(100, ...)
SlowTaskBegin ==
    /\ pc = "SlowTask"
    /\ SlowTask' = Some([TotalAmountOfWork |-> SlowTaskTotal,
                         CompletedWork |-> 0,
                         CurrentFrameScope |-> 0])
    /\ pc' = "Frame80"
    /\ UNCHANGED << reads, config, signals, ErrorLevel, returned, Scope, CleanupGuard,
                    observed, exitHistory >>

\* FSlowTask::EnterProgressFrame(ExpectedWorkThisFrame): the frame that was
\* open is counted as completed and a new frame of the given size is opened.
EnterProgressFrame(task, ExpectedWorkThisFrame) ==
    [task EXCEPT !.CompletedWork = @ + task.CurrentFrameScope,
                 !.CurrentFrameScope = ExpectedWorkThisFrame]

\* line 165 left out: the 80 units of the pre-init share are never entered
EnterFrame80_Missing ==
    /\ pc = "Frame80"
    /\ SlowTask' = SlowTask
    /\ pc' = "Frame20"
    /\ UNCHANGED << reads, config, signals, ErrorLevel, returned, Scope,
                    CleanupGuard, observed, exitHistory >>

\* line 165: SlowTask.EnterProgressFrame(80)
EnterFrame80 ==
    /\ pc = "Frame80"
    /\ SlowTask' = Some(EnterProgressFrame(SlowTask[1], PreInitShare))
    /\ pc' = "Frame20"
    /\ UNCHANGED << reads, config, signals, ErrorLevel, returned, Scope, CleanupGuard,
                    observed, exitHistory >>

\* line 167: SlowTask.EnterProgressFrame(20)
EnterFrame20 ==
    /\ pc = "Frame20"
    /\ SlowTask' = Some(EnterProgressFrame(SlowTask[1], InitShare))
    /\ pc' = "Init"
    /\ UNCHANGED << reads, config, signals, ErrorLevel, returned, Scope, CleanupGuard,
                    observed, exitHistory >>

\* lines 169-178 (lines 51-56): EditorInit(GEngineLoop) or EngineInit() is
\* entered, whichever the mode selects.
EngineInitCall ==
    /\ pc = "Init"
    /\ calls' = Count("init")
    /\ pc' = "InInit"
    /\ UNCHANGED << reads, config, signals, locals, tickReturns, preInitResult,
                    initResult, exitAtCheckExit, falseReads, trueRead,
                    exitHistory >>

\* lines 172/177 with the result of the initializer discarded
EngineInitReturn_DropResult ==
    /\ pc = "InInit"
    /\ \E r \in ErrorLevels :
          /\ ErrorLevel' = ErrorLevel
          /\ initResult' = Some(r)
    /\ SlowTask' = None
    /\ pc' = "EmbeddedCheck"
    /\ UNCHANGED << reads, config, signals, returned, Scope, CleanupGuard, calls,
                    tickReturns, preInitResult, exitAtCheckExit, falseReads,
                    trueRead, exitHistory >>

\* lines 172/177-179: ErrorLevel = EngineInit(); the block ends and SlowTask
\* is destroyed.
EngineInitReturn ==
    /\ pc = "InInit"
    /\ \E r \in ErrorLevels :
          /\ ErrorLevel' = Some(r)
          /\ initResult' = Some(r)
    /\ SlowTask' = None
    /\ pc' = "EmbeddedCheck"
    /\ UNCHANGED << reads, config, signals, returned, Scope, CleanupGuard, calls,
                    tickReturns, preInitResult, exitAtCheckExit, falseReads,
                    trueRead, exitHistory >>

----------------------------------------------------------------------------
(* lines 191-199: the tick loop *)

\* line 193 with the loop entered in embedded mode too
EmbeddedCheck_AlwaysTick ==
    /\ pc = "EmbeddedCheck"
    /\ pc' = "LoopCheck"
    /\ UNCHANGED << embeddedReads, gatePassed, config, signals, locals,
                    observed, exitHistory >>

\* line 193 with the loop also gated on Init having succeeded
EmbeddedCheck_GateOnError ==
    /\ pc = "EmbeddedCheck"
    /\ embeddedReads' = Append(embeddedReads, bIsEmbedded)
    /\ pc' = IF ~bIsEmbedded /\ ErrorLevel = Some(0) THEN "LoopCheck" ELSE "LoopEnd"
    /\ UNCHANGED << gatePassed, config, signals, locals, observed, exitHistory >>

\* line 193: if (!GUELibraryOverrideSettings.bIsEmbedded)
EmbeddedCheck ==
    /\ pc = "EmbeddedCheck"
    /\ embeddedReads' = Append(embeddedReads, bIsEmbedded)
    /\ pc' = IF ~bIsEmbedded THEN "LoopCheck" ELSE "LoopEnd"
    /\ UNCHANGED << gatePassed, config, signals, locals, observed, exitHistory >>

\* line 195 as a do-while: the first iteration runs without a test
LoopCheck_DoWhile ==
    /\ pc = "LoopCheck"
    /\ IF calls.tick > 0 /\ exitRequested
          THEN /\ trueRead' = TRUE
               /\ falseReads' = falseReads
               /\ pc' = "LoopEnd"
          ELSE /\ calls.tick < MaxTicks
               /\ trueRead' = trueRead
               /\ falseReads' = falseReads + (IF exitRequested THEN 0 ELSE 1)
               /\ pc' = "CallTick"
    /\ UNCHANGED << reads, config, signals, locals, calls, tickReturns, preInitResult,
                    initResult, exitAtCheckExit, exitHistory >>

\* line 195 with the flag tested once, before the first iteration only
LoopCheck_FirstOnly ==
    /\ pc = "LoopCheck"
    /\ IF (calls.tick = 0 /\ exitRequested) \/ calls.tick = MaxTicks
          THEN /\ trueRead' = exitRequested
               /\ falseReads' = falseReads
               /\ pc' = "LoopEnd"
          ELSE /\ trueRead' = trueRead
               /\ falseReads' = falseReads + (IF exitRequested THEN 0 ELSE 1)
               /\ pc' = "CallTick"
    /\ UNCHANGED << reads, config, signals, locals, calls, tickReturns, preInitResult,
                    initResult, exitAtCheckExit, exitHistory >>

\* line 195 with an iteration cap: the loop is also left, without the flag
\* having been read as true, once one iteration has run
LoopCheck_Capped ==
    /\ pc = "LoopCheck"
    /\ IF exitRequested \/ calls.tick >= 1
          THEN /\ trueRead' = exitRequested
               /\ falseReads' = falseReads + (IF exitRequested THEN 0 ELSE 1)
               /\ pc' = "LoopEnd"
          ELSE /\ trueRead' = trueRead
               /\ falseReads' = falseReads + 1
               /\ pc' = "CallTick"
    /\ UNCHANGED << reads, config, signals, locals, calls, tickReturns,
                    preInitResult, initResult, exitAtCheckExit, exitHistory >>

\* line 195: while (!IsEngineExitRequested()); the flag is read anew at
\* each test.  A test that reads false is explored up to MaxTicks calls.
LoopCheck ==
    /\ pc = "LoopCheck"
    /\ IF exitRequested
          THEN /\ trueRead' = TRUE
               /\ falseReads' = falseReads
               /\ pc' = "LoopEnd"
          ELSE /\ calls.tick < MaxTicks
               /\ trueRead' = trueRead
               /\ falseReads' = falseReads + 1
               /\ pc' = "CallTick"
    /\ UNCHANGED << reads, config, signals, locals, calls, tickReturns, preInitResult,
                    initResult, exitAtCheckExit, exitHistory >>

\* line 197 (lines 61-64): GEngineLoop.Tick() is entered
EngineTickCall ==
    /\ pc = "CallTick"
    /\ calls' = Count("tick")
    /\ pc' = "InTick"
    /\ UNCHANGED << reads, config, signals, locals, tickReturns, preInitResult,
                    initResult, exitAtCheckExit, falseReads, trueRead,
                    exitHistory >>

\* line 197: EngineTick returns and the loop test is next
EngineTickReturn ==
    /\ pc = "InTick"
    /\ tickReturns' = tickReturns + 1
    /\ pc' = "LoopCheck"
    /\ UNCHANGED << reads, config, signals, locals, calls, preInitResult, initResult,
                    exitAtCheckExit, falseReads, trueRead, exitHistory >>

----------------------------------------------------------------------------
(* lines 201-210 and 129-137: return, the guard's destructor, EngineExit *)

\* lines 201-209 with an explicit EngineExit() ahead of the return
TickLoopEnd_ExplicitExit ==
    /\ pc = "LoopEnd"
    /\ calls' = [calls EXCEPT
                   !.editorExit = IF GIsEditor THEN @ + 1 ELSE @,
                   !.engineExit = @ + 1,
                   !.loopExit = @ + 1]
    /\ exitRequested' = TRUE
    /\ exitSetAt' = IF exitRequested THEN exitSetAt ELSE pc
    /\ exitSetTick' = IF exitRequested THEN exitSetTick ELSE calls.tick
    /\ returned' = ErrorLevel
    /\ pc' = "GuardDtor"
    /\ UNCHANGED << reads, config, debuggerPresent, ErrorLevel, Scope, CleanupGuard,
                    SlowTask, tickReturns, preInitResult, initResult,
                    exitAtCheckExit, falseReads, trueRead >>

\* lines 201-209: if (GIsEditor) EditorExit(); return ErrorLevel;
TickLoopEnd ==
    /\ pc = "LoopEnd"
    /\ calls' = [calls EXCEPT !.editorExit = IF GIsEditor THEN @ + 1 ELSE @]
    /\ returned' = ErrorLevel
    /\ pc' = "GuardDtor"
    /\ UNCHANGED << reads, config, signals, ErrorLevel, Scope, CleanupGuard, SlowTask,
                    tickReturns, preInitResult, initResult, exitAtCheckExit,
                    falseReads, trueRead, exitHistory >>

\* lines 129-137 with the engine shut down only once Init has been reached
GuardDtor_OnlyAfterInit ==
    /\ pc = "GuardDtor"
    /\ CleanupGuard
    /\ CleanupGuard' = FALSE
    /\ embeddedReads' = Append(embeddedReads, bIsEmbedded)
    /\ pc' = IF ~bIsEmbedded /\ calls.init > 0 THEN "EngineExit" ELSE "ScopeDtor"
    /\ UNCHANGED << gatePassed, config, signals, ErrorLevel, returned, Scope, SlowTask,
                    observed, exitHistory >>

\* lines 129-137 deciding on the value read at line 193 when there is one,
\* instead of reading the flag again
GuardDtor_CachedFlag ==
    /\ pc = "GuardDtor"
    /\ CleanupGuard
    /\ CleanupGuard' = FALSE
    /\ IF embeddedReads # << >>
          THEN /\ embeddedReads' = embeddedReads
               /\ pc' = IF ~embeddedReads[1] THEN "EngineExit" ELSE "ScopeDtor"
          ELSE /\ embeddedReads' = Append(embeddedReads, bIsEmbedded)
               /\ pc' = IF ~bIsEmbedded THEN "EngineExit" ELSE "ScopeDtor"
    /\ UNCHANGED << gatePassed, config, signals, ErrorLevel, returned, Scope,
                    SlowTask, observed, exitHistory >>

\* lines 129-137: ~EngineLoopCleanupGuard(), run when the scope is left
GuardDtor ==
    /\ pc = "GuardDtor"
    /\ CleanupGuard
    /\ CleanupGuard' = FALSE
    /\ embeddedReads' = Append(embeddedReads, bIsEmbedded)
    /\ pc' = IF ~bIsEmbedded THEN "EngineExit" ELSE "ScopeDtor"
    /\ UNCHANGED << gatePassed, config, signals, ErrorLevel, returned, Scope, SlowTask,
                    observed, exitHistory >>

\* lines 69-74 without line 72: GEngineLoop.Exit() is entered with the
\* flag left as it was
EngineExit_NoRequest ==
    /\ pc = "EngineExit"
    /\ calls' = [calls EXCEPT !.engineExit = @ + 1, !.loopExit = @ + 1]
    /\ pc' = "InExit"
    /\ UNCHANGED << reads, config, signals, locals, tickReturns,
                    preInitResult, initResult, exitAtCheckExit, falseReads,
                    trueRead, exitHistory >>

\* lines 69-74: RequestEngineExit(...), then GEngineLoop.Exit() is entered
EngineExit ==
    /\ pc = "EngineExit"
    /\ calls' = [calls EXCEPT !.engineExit = @ + 1, !.loopExit = @ + 1]
    /\ exitRequested' = TRUE
    /\ exitSetAt' = IF exitRequested THEN exitSetAt ELSE pc
    /\ exitSetTick' = IF exitRequested THEN exitSetTick ELSE calls.tick
    /\ pc' = "InExit"
    /\ UNCHANGED << reads, config, debuggerPresent, locals, tickReturns,
                    preInitResult, initResult, exitAtCheckExit, falseReads,
                    trueRead >>

\* lines 74-75: GEngineLoop.Exit() and EngineExit return
EngineExitReturn ==
    /\ pc = "InExit"
    /\ pc' = "ScopeDtor"
    /\ UNCHANGED << reads, config, signals, locals, observed, exitHistory >>

\* line 210: Scope, declared at line 95, is destroyed and GuardedMain returns
LeaveScope ==
    /\ pc = "ScopeDtor"
    /\ Scope' = FALSE
    /\ pc' = "Terminated"
    /\ UNCHANGED << reads, config, signals, ErrorLevel, returned, CleanupGuard,
                    SlowTask, observed, exitHistory >>

----------------------------------------------------------------------------

Next ==
    \/ RequestEngineExit
    \/ DebuggerAttach
    \/ DebuggerDetach
    \/ EnterScope
    \/ DebugGate
    \/ WaitForDebugger
    \/ PreMainBroadcast
    \/ AcquireGuard
    \/ EnginePreInitCall
    \/ EnginePreInitReturn
    \/ CheckExit
    \/ SlowTaskBegin
    \/ EnterFrame80
    \/ EnterFrame20
    \/ EngineInitCall
    \/ EngineInitReturn
    \/ EmbeddedCheck
    \/ LoopCheck
    \/ EngineTickCall
    \/ EngineTickReturn
    \/ TickLoopEnd
    \/ GuardDtor
    \/ EngineExit
    \/ EngineExitReturn
    \/ LeaveScope

Spec == Init /\ [][Next]_vars

\* The steps of the thread that runs GuardedMain.
Controller ==
    \/ EnterScope \/ DebugGate \/ WaitForDebugger \/ PreMainBroadcast
    \/ AcquireGuard \/ EnginePreInitCall \/ EnginePreInitReturn \/ CheckExit
    \/ SlowTaskBegin \/ EnterFrame80 \/ EnterFrame20 \/ EngineInitCall
    \/ EngineInitReturn \/ EmbeddedCheck \/ LoopCheck \/ EngineTickCall
    \/ EngineTickReturn \/ TickLoopEnd \/ GuardDtor \/ EngineExit
    \/ EngineExitReturn \/ LeaveScope

\* The thread keeps running and every engine-loop call returns.
LiveSpec == Init /\ [][Next]_vars /\ WF_vars(Controller)

\* Runs in which the host may rewrite bIsEmbedded at any moment.
NextHost ==
    \/ Next
    \/ HostSetEmbedded

SpecHost == Init /\ [][NextHost]_vars

TypeOK ==
    /\ config \in BOOLEAN \X BOOLEAN \X BOOLEAN \X BOOLEAN
    /\ signals \in BOOLEAN \X BOOLEAN
    /\ ErrorLevel \in {None} \cup {Some(r) : r \in ErrorLevels}
    /\ returned \in {None} \cup {Some(r) : r \in ErrorLevels}
    /\ calls \in [Operations -> 0 .. MaxTicks + 1]
    /\ tickReturns \in 0 .. MaxTicks
    /\ falseReads \in 0 .. MaxTicks
    /\ Len(embeddedReads) <= 2
    /\ gatePassed \in { "no", "skipped", "attached" }


----------------------------------------------------------------------------
(* Vocabulary of the properties *)

Terminated == pc = "Terminated"

\* EnginePreInit has returned a non-zero result
PreInitFailed == preInitResult # None /\ preInitResult # Some(0)

\* positions reached only once the tick loop (or its embedded bypass) is behind
AfterLoop == { "LoopEnd", "GuardDtor", "EngineExit", "InExit", "ScopeDtor",
               "Terminated" }

\* positions between the test of line 154 having passed and line 195
BeforeLoopEntry == { "SlowTask", "Frame80", "Frame20", "Init", "InInit",
                     "EmbeddedCheck" }

----------------------------------------------------------------------------
\* C1: whenever EnginePreInit has returned a non-zero result, EngineTick and
\* EngineInit are never invoked, and by the time GuardedMain has returned
\* EngineExit has run exactly once when not embedded and not at all when
\* embedded.
C1_PreInitFailure ==
    PreInitFailed =>
        /\ calls.tick = 0
        /\ calls.init = 0
        /\ calls.engineExit <= 1
        /\ bIsEmbedded => calls.engineExit = 0
        /\ Terminated => calls.engineExit = (IF bIsEmbedded THEN 0 ELSE 1)
        /\ Terminated => calls.loopExit = calls.engineExit

C1_Witness ==
    /\ Terminated
    /\ preInitResult = Some(7)
    /\ returned = Some(7)
    /\ ~bIsEmbedded
    /\ calls.engineExit = 1

\* C2: in every run, whatever the results, the mode and the moment of the
\* exit request, EngineExit (and with it GEngineLoop.Exit) is executed by
\* the controller at most once.
C2_ExitAtMostOnce ==
    /\ calls.engineExit <= 1
    /\ calls.loopExit <= 1

C2_Witness ==
    /\ Terminated
    /\ calls.engineExit = 1
    /\ calls.tick >= 1
    /\ exitSetAt = "InTick"

\* C3: in a non-embedded run, once GuardedMain has returned - after the tick
\* loop, after a failed PreInit, or after a PreInit that returned 0 with an
\* exit request active - the guard has been released and its destructor has
\* run the exit phase to completion.
C3_GuardRunsExitOnEveryPath ==
    (Terminated /\ ~bIsEmbedded) =>
        /\ ~CleanupGuard
        /\ calls.engineExit = 1
        /\ calls.loopExit = 1

C3_Witness ==
    /\ Terminated
    /\ ~bIsEmbedded
    /\ preInitResult = Some(0)
    /\ exitSetAt = "InPreInit"
    /\ initResult = None
    /\ calls.engineExit = 1

\* C4: in a run with bIsEmbedded set, the controller never tests the loop
\* condition, never invokes EngineTick and never invokes EngineExit,
\* whatever PreInit and Init return and whenever exit is requested.
C4_EmbeddedNeverTicksNorExits ==
    bIsEmbedded =>
        /\ calls.tick = 0
        /\ calls.engineExit = 0
        /\ calls.loopExit = 0
        /\ pc \notin { "LoopCheck", "CallTick", "InTick", "EngineExit", "InExit" }

C4_Witness ==
    /\ Terminated
    /\ bIsEmbedded
    /\ preInitResult = Some(0)
    /\ initResult = Some(0)
    /\ ~exitRequested

\* C5: when the exit request becomes true while the Nth EngineTick is in
\* flight, that call is the last one (no call N+1 is ever made), it returns
\* before anything else happens in the controller, and neither the return
\* statement nor the exit phase is reached while it is in flight.
C5_ExitDuringTickEndsAfterThatTick ==
    exitSetAt = "InTick" =>
        /\ calls.tick = exitSetTick
        /\ tickReturns = (IF pc = "InTick" THEN exitSetTick - 1 ELSE exitSetTick)
        /\ pc \in { "InTick", "LoopCheck" } \cup AfterLoop
        /\ pc = "InTick" =>
              (calls.engineExit = 0 /\ calls.loopExit = 0 /\ returned = None)

C5_Witness ==
    /\ Terminated
    /\ exitSetAt = "InTick"
    /\ exitSetTick = 2
    /\ tickReturns = 2
    /\ calls.engineExit = 1

\* C6 as claimed: an exit request that becomes true anywhere between Init
\* returning and the first EngineTick call, the window between the first
\* loop test and the call included, leaves the loop at zero iterations.
C6_Original ==
    (exitSetAt \in { "EmbeddedCheck", "LoopCheck", "CallTick" } /\ exitSetTick = 0)
        => calls.tick = 0

\* C6 as amended: an exit request that becomes true between Init returning
\* and the first test of the loop condition leaves the loop at zero
\* iterations; one that arrives after that test has read false but before
\* EngineTick is invoked does not stop the first iteration, and stops the
\* second.
C6_ExitBeforeFirstTest ==
    /\ (exitSetAt \in { "EmbeddedCheck", "LoopCheck" } /\ exitSetTick = 0)
           => (calls.tick = 0 /\ falseReads = 0)
    /\ (exitSetAt = "CallTick" /\ exitSetTick = 0)
           => (calls.tick <= 1 /\ (pc \in AfterLoop => calls.tick = 1))

C6_Witness ==
    /\ Terminated
    /\ ~bIsEmbedded
    /\ exitSetAt = "LoopCheck"
    /\ exitSetTick = 0
    /\ trueRead
    /\ calls.tick = 0

\* C7: when the exit request became true after the test of line 154 had
\* passed and before the loop is entered (during Init in particular), the
\* loop runs zero iterations, the exit phase still runs once in a
\* non-embedded run, and the value returned is Init's result.
C7_ExitBeforeLoopEntry ==
    exitSetAt \in BeforeLoopEntry =>
        /\ calls.tick = 0
        /\ falseReads = 0
        /\ pc \notin { "CallTick", "InTick" }
        /\ (Terminated /\ ~bIsEmbedded) =>
              (calls.engineExit = 1 /\ calls.loopExit = 1)
        /\ Terminated => (initResult # None /\ returned = initResult)

C7_Witness ==
    /\ Terminated
    /\ ~bIsEmbedded
    /\ exitSetAt = "InInit"
    /\ trueRead
    /\ calls.init = 1
    /\ calls.engineExit = 1
    /\ returned = Some(7)

\* C8: the value returned is PreInit's result when GuardedMain returns early
\* at line 156 (hence 0 when PreInit succeeded and an exit request was
\* active) and Init's result otherwise; once the return statement has been
\* executed the value never changes, and nothing from the tick loop on
\* changes ErrorLevel.
C8_ReturnedValue ==
    returned # None =>
        /\ returned = (IF initResult = None THEN preInitResult ELSE initResult)
        /\ (initResult = None /\ ~PreInitFailed) =>
              (returned = Some(0) /\ exitAtCheckExit = Some(TRUE))

C8_ValueStable ==
    /\ returned # None => returned' = returned
    /\ pc \in { "EmbeddedCheck", "LoopCheck", "CallTick", "InTick" } \cup AfterLoop
          => ErrorLevel' = ErrorLevel

C8_ResultPropagated == [] C8_ReturnedValue /\ [][C8_ValueStable]_vars

C8_Witness ==
    /\ Terminated
    /\ ~bIsEmbedded
    /\ preInitResult = Some(0)
    /\ initResult = Some(7)
    /\ returned = Some(7)
    /\ calls.tick >= 1
    /\ calls.engineExit = 1

\* C9: Init is invoked exactly when PreInit returned 0 and exitRequested was
\* false at the test of line 154; when PreInit returned 0 and the flag was
\* true at that test, Init and Tick are never invoked and the run ends early.
C9_InitIffCheckExitPassed ==
    /\ calls.init <= 1
    /\ calls.init = 1 =>
          (preInitResult = Some(0) /\ exitAtCheckExit = Some(FALSE))
    /\ (preInitResult = Some(0) /\ exitAtCheckExit = Some(FALSE)
            /\ pc \notin { "SlowTask", "Frame80", "Frame20", "Init" })
          => calls.init = 1
    /\ (preInitResult = Some(0) /\ exitAtCheckExit = Some(TRUE)) =>
          /\ calls.init = 0
          /\ calls.tick = 0
          /\ initResult = None
          /\ pc \in { "GuardDtor", "EngineExit", "InExit", "ScopeDtor",
                      "Terminated" }

C9_Witness ==
    /\ Terminated
    /\ preInitResult = Some(0)
    /\ exitSetAt = "CheckExit"
    /\ exitAtCheckExit = Some(TRUE)
    /\ calls.init = 0

\* C10: in a non-embedded run in which Init returned a non-zero result, the
\* loop is entered all the same: the controller gets past the loop only
\* after a loop test has read the flag as true, every test that read false
\* is followed by an EngineTick call, and the value returned is Init's
\* non-zero result.
C10_InitFailureStillRuns ==
    (~bIsEmbedded /\ initResult # None /\ initResult # Some(0)) =>
        /\ pc \in AfterLoop => trueRead
        /\ calls.tick = falseReads - (IF pc = "CallTick" THEN 1 ELSE 0)
        /\ returned # None => returned = initResult

C10_Witness ==
    /\ Terminated
    /\ ~bIsEmbedded
    /\ initResult = Some(-1)
    /\ returned = Some(-1)
    /\ calls.tick = 2
    /\ exitSetAt = "LoopCheck"

----------------------------------------------------------------------------
\* C11: the phases of a run are strictly sequential.  PreInit is invoked
\* once and has returned before Init starts; Init is invoked at most once
\* and has returned before the first Tick starts; every Tick has returned
\* before the next Tick or the exit phase starts; and once the exit phase
\* has begun no PreInit, Init or Tick is started.
C11_PhaseOrder ==
    /\ calls.preInit <= 1
    /\ calls.init <= 1
    /\ (calls.preInit = 1) <=> (pc \notin { "Start", "Gate", "WaitDebugger",
                                           "Broadcast", "Guard", "PreInit" })
    /\ (preInitResult # None) <=> (calls.preInit = 1 /\ pc # "InPreInit")
    /\ calls.init = 1 => preInitResult # None
    /\ (initResult # None) <=> (calls.init = 1 /\ pc # "InInit")
    /\ calls.tick > 0 => initResult # None
    /\ tickReturns = calls.tick - (IF pc = "InTick" THEN 1 ELSE 0)
    /\ calls.engineExit > 0 =>
          /\ pc \in { "InExit", "ScopeDtor", "Terminated" }
          /\ preInitResult # None
          /\ calls.init = 1 => initResult # None
          /\ tickReturns = calls.tick

C11_NothingStartsAfterExit ==
    calls.engineExit > 0 =>
        /\ calls'.preInit = calls.preInit
        /\ calls'.init = calls.init
        /\ calls'.tick = calls.tick

C11_SequentialPhases == [] C11_PhaseOrder /\ [][C11_NothingStartsAfterExit]_vars

C11_Witness ==
    /\ pc = "InExit"
    /\ calls.preInit = 1
    /\ calls.init = 1
    /\ calls.tick = 2
    /\ tickReturns = 2

----------------------------------------------------------------------------
\* Progress of the slow task in percent of its total: the work completed,
\* and the most it can show while the current frame is open.
Completed(task) == (task.CompletedWork * 100) \div task.TotalAmountOfWork
Ceiling(task) ==
    ((task.CompletedWork + task.CurrentFrameScope) * 100) \div task.TotalAmountOfWork

\* C12: the slow task of GuardedMain reserves 100 units; what it reports
\* never exceeds 100 and never decreases; the 80-unit frame and then the
\* 20-unit frame are entered right after the test of line 154 has passed and
\* before Init is invoked, so Init runs with the 80 units of the pre-init
\* share already completed and 20 units open.
C12_ProgressBounds ==
    /\ SlowTask # None =>
          /\ SlowTask[1].TotalAmountOfWork = SlowTaskTotal
          /\ Completed(SlowTask[1]) >= 0
          /\ Completed(SlowTask[1]) <= Ceiling(SlowTask[1])
          /\ Ceiling(SlowTask[1]) <= 100
    /\ (SlowTask # None) <=> (pc \in { "Frame80", "Frame20", "Init", "InInit" })
    /\ pc \in { "Init", "InInit" } =>
          /\ Completed(SlowTask[1]) = 80
          /\ Ceiling(SlowTask[1]) = 100
    /\ pc \in { "SlowTask", "Frame80", "Frame20" } =>
          (exitAtCheckExit = Some(FALSE) /\ calls.init = 0)

C12_ProgressMonotone ==
    (SlowTask # None /\ SlowTask' # None) =>
        /\ Completed(SlowTask'[1]) >= Completed(SlowTask[1])
        /\ Ceiling(SlowTask'[1]) >= Ceiling(SlowTask[1])

C12_Progress == [] C12_ProgressBounds /\ [][C12_ProgressMonotone]_vars

C12_Witness ==
    /\ pc = "InInit"
    /\ SlowTask # None
    /\ SlowTask[1].CompletedWork = 80
    /\ SlowTask[1].CurrentFrameScope = 20

----------------------------------------------------------------------------
\* Exit-request tests of the controller that read the flag as false: the
\* loop tests of line 195, and the test of line 154, which evaluates
\* IsEngineExitRequested() only when ErrorLevel is 0.
FalseChecks ==
    falseReads
      + (IF preInitResult = Some(0) /\ exitAtCheckExit = Some(FALSE) THEN 1 ELSE 0)

\* a non-embedded run in which PreInit and Init both returned 0
CleanRun ==
    /\ ~bIsEmbedded
    /\ preInitResult = Some(0)
    /\ initResult = Some(0)

\* C13 as claimed: in a non-embedded run with PreInit = 0 and Init = 0, once
\* the flag has been read as true, EngineTick has been invoked as many times
\* as the controller's exit-request tests read the flag as false.
C13_Original ==
    (CleanRun /\ trueRead) => calls.tick = FalseChecks

\* C13 as amended: in such a run EngineTick is invoked once per loop test
\* (line 195) that read the flag as false; the test of line 154 reads it as
\* false too without a Tick following, so over all the controller's tests
\* the count of false readings is one more than the count of Ticks; the
\* value returned is 0.
C13_TicksEqualFalseLoopTests ==
    CleanRun =>
        /\ calls.tick = falseReads - (IF pc = "CallTick" THEN 1 ELSE 0)
        /\ trueRead => (calls.tick = falseReads /\ calls.tick = FalseChecks - 1)
        /\ returned # None => returned = Some(0)

C13_Witness ==
    /\ Terminated
    /\ CleanRun
    /\ trueRead
    /\ falseReads = 3
    /\ calls.tick = 3
    /\ returned = Some(0)

----------------------------------------------------------------------------
InLoop == { "LoopCheck", "CallTick", "InTick" }

\* C14: in a non-embedded run, once Init has returned the controller gets
\* past the tick loop only after a loop test has read the flag as true;
\* until then it is at the loop, has not returned and has not started the
\* exit phase.  Each loop test decides on the value the flag has at that
\* test, a test that reads false is followed by the EngineTick call and
\* that call by the next test, and a step taken inside the loop changes no
\* local of GuardedMain and invokes nothing but EngineTick.
C14_LeftOnlyOnTrueRead ==
    (~bIsEmbedded /\ initResult # None) =>
        /\ pc \in AfterLoop => trueRead
        /\ ~trueRead =>
              /\ pc \in { "EmbeddedCheck" } \cup InLoop
              /\ returned = None
              /\ calls.engineExit = 0
              /\ calls.loopExit = 0
              /\ calls.editorExit = 0

C14_LoopStep ==
    (pc \in InLoop) =>
        /\ locals' = locals
        /\ [calls' EXCEPT !.tick = calls.tick] = calls
        /\ (pc = "LoopCheck" /\ pc' # pc) =>
              /\ pc' = (IF exitRequested THEN "LoopEnd" ELSE "CallTick")
              /\ trueRead' = exitRequested
        /\ (pc = "CallTick" /\ pc' # pc) =>
              (pc' = "InTick" /\ calls'.tick = calls.tick + 1)
        /\ (pc = "InTick" /\ pc' # pc) => pc' = "LoopCheck"

C14_LoopEndsOnlyOnExitRequest ==
    [] C14_LeftOnlyOnTrueRead /\ [][C14_LoopStep]_vars

C14_Witness ==
    /\ pc = "LoopCheck"
    /\ ~bIsEmbedded
    /\ tickReturns = 2
    /\ falseReads = 2
    /\ ~exitRequested
    /\ ~trueRead

----------------------------------------------------------------------------
\* C15 as claimed: the cleanup guard is the first scoped resource acquired
\* and the last released, so no other scoped resource of GuardedMain is
\* alive while the guard is not.
C15_Original ==
    /\ Scope => CleanupGuard
    /\ SlowTask # None => CleanupGuard

\* C15 as amended: the game-thread task-tag scope is acquired before the
\* guard and released after it, so the guard's release action runs the exit
\* phase while the task-tag scope is still alive; the guard is acquired
\* before any phase is invoked and is alive until the return statement has
\* been executed; the slow task, acquired after the guard, is released
\* before it.
C15_GuardInsideTaskTagScope ==
    /\ CleanupGuard => Scope
    /\ pc \in { "GuardDtor", "EngineExit", "InExit", "ScopeDtor" } => Scope
    /\ Scope <=> (pc \notin { "Start", "Terminated" })
    /\ CleanupGuard <=> (pc \notin { "Start", "Gate", "WaitDebugger", "Broadcast",
                                    "Guard", "EngineExit", "InExit",
                                    "ScopeDtor", "Terminated" })
    /\ (calls.preInit > 0 /\ returned = None) => CleanupGuard
    /\ SlowTask # None => CleanupGuard

C15_Witness ==
    /\ pc = "ScopeDtor"
    /\ Scope
    /\ ~CleanupGuard
    /\ calls.engineExit = 1
    /\ calls.tick >= 1

----------------------------------------------------------------------------
\* the tick loop has been entered
LoopEntered == pc \in InLoop \/ trueRead \/ falseReads > 0

\* the guard's destructor has decided to run the exit phase
ExitChosen == pc = "EngineExit" \/ calls.engineExit = 1

AfterGuardDtor == { "EngineExit", "InExit", "ScopeDtor", "Terminated" }

\* C16 as claimed: one reading of bIsEmbedded decides both whether the loop
\* runs and whether the guard runs the exit phase, so in a run that reached
\* line 193 the exit phase is run exactly when that reading was false,
\* whatever the host does to the flag afterwards.
C16_Original ==
    (pc \in AfterGuardDtor /\ initResult # None) =>
        (ExitChosen <=> ~embeddedReads[1])

\* C16 as amended: bIsEmbedded is read at two places, each at the moment of
\* its own decision: at line 193, after Init has returned, for the tick
\* loop, and at line 133, in the guard's destructor, for the exit phase
\* (the only reading of a run that returns at line 156).  Each decision
\* follows the value the flag has when it is read, so a change of the flag
\* between the two readings changes the second decision and none after the
\* second reading changes anything.
C16_ReadsDecide ==
    /\ Len(embeddedReads) <= 2
    /\ (initResult = None \/ pc = "EmbeddedCheck") =>
          (Len(embeddedReads) = (IF pc \in AfterGuardDtor THEN 1 ELSE 0))
    /\ (initResult # None /\ pc # "EmbeddedCheck") =>
          /\ Len(embeddedReads) = (IF pc \in AfterGuardDtor THEN 2 ELSE 1)
          /\ LoopEntered <=> ~embeddedReads[1]
    /\ pc \in AfterGuardDtor =>
          (ExitChosen <=> ~embeddedReads[Len(embeddedReads)])

C16_DecisionFollowsFlag ==
    /\ (pc = "EmbeddedCheck" /\ pc' # pc) =>
          (pc' = (IF bIsEmbedded THEN "LoopEnd" ELSE "LoopCheck"))
    /\ (pc = "GuardDtor" /\ pc' # pc) =>
          (pc' = (IF bIsEmbedded THEN "ScopeDtor" ELSE "EngineExit"))
    /\ pc \in AfterGuardDtor =>
          (embeddedReads' = embeddedReads /\ calls'.engineExit <= 1
             /\ calls'.tick = calls.tick)

C16_TwoReadsTwoDecisions == [] C16_ReadsDecide /\ [][C16_DecisionFollowsFlag]_vars

C16_Witness ==
    /\ Terminated
    /\ embeddedReads = << FALSE, TRUE >>
    /\ calls.tick >= 1
    /\ calls.engineExit = 0
    /\ calls.loopExit = 0

----------------------------------------------------------------------------
BeforeBroadcast == { "Start", "Gate", "WaitDebugger", "Broadcast" }

\* the broadcast or one of the four phases is started by this step
StartsSomething ==
    \E op \in { "broadcast", "preInit", "init", "tick", "engineExit" } :
        calls'[op] > calls[op]

\* C17 as claimed: with the wait-for-debugger flag on the command line,
\* neither the broadcast nor any phase starts in a state in which the
\* debugger-attached signal is false.
C17_OriginalStep == (waitForAttach /\ ~debuggerPresent) => ~StartsSomething

C17_Original == [][C17_OriginalStep]_vars

\* C17 as amended: the pre-main notification is broadcast exactly once,
\* after the debug gate has been left and before PreInit is invoked,
\* whatever the embedded flag and whether or not an exit request is pending.
\* In a build other than shipping with the flag on the command line, the
\* gate is left only by a poll that read the debugger-attached signal as
\* true, and neither the broadcast nor any phase starts before that; a
\* shipping build has no gate, and without the flag the gate does not wait.
C17_BroadcastAfterGate ==
    /\ calls.broadcast <= 1
    /\ (calls.broadcast = 1) <=> (pc \notin BeforeBroadcast)
    /\ (gatePassed = "no") <=> (pc \in { "Start", "Gate", "WaitDebugger" })
    /\ calls.preInit > 0 => calls.broadcast = 1
    /\ gatePassed = "no" =>
          \A op \in Operations : calls[op] = 0
    /\ (~shipping /\ waitForAttach) =>
          /\ gatePassed \in { "no", "attached" }
          /\ gatePassed # "attached" =>
                (\A op \in Operations : calls[op] = 0)
    /\ (shipping \/ ~waitForAttach) => gatePassed \in { "no", "skipped" }

C17_GateStep ==
    /\ (gatePassed # "attached" /\ gatePassed' = "attached") => debuggerPresent
    /\ gatePassed # "no" => gatePassed' = gatePassed
    /\ calls'.broadcast > calls.broadcast =>
          (gatePassed # "no" /\ calls.preInit = 0)

C17_BroadcastOnceAfterGate == [] C17_BroadcastAfterGate /\ [][C17_GateStep]_vars

C17_Witness ==
    /\ pc = "InPreInit"
    /\ ~shipping
    /\ waitForAttach
    /\ gatePassed = "attached"
    /\ calls.broadcast = 1
    /\ bIsEmbedded
    /\ exitSetAt = "WaitDebugger"

----------------------------------------------------------------------------
PastGate == gatePassed # "no"

\* C18, checked under LiveSpec (the controller thread keeps running and
\* every engine-loop call returns): once the debug gate is passed, an
\* embedded run always reaches Terminated, exit requested or not; a
\* non-embedded run in which the exit request is true (it is never cleared)
\* reaches Terminated with the exit phase run once; and a non-embedded run
\* that got past the test of line 154 is Terminated only if another party
\* requested exit and a loop test read it, so without a request it stays in
\* the loop for ever.
C18_EmbeddedTerminates == (bIsEmbedded /\ PastGate) ~> Terminated

C18_ExitRequestTerminates ==
    (~bIsEmbedded /\ PastGate /\ exitRequested)
        ~> (Terminated /\ calls.engineExit = 1 /\ calls.loopExit = 1)

C18_NoRequestNoTermination ==
    (~bIsEmbedded /\ initResult # None) =>
        /\ exitSetAt = "never" => (pc \in { "EmbeddedCheck" } \cup InLoop)
        /\ Terminated => (trueRead /\ exitSetAt \notin { "never", "EngineExit" })

C18_Termination ==
    /\ C18_EmbeddedTerminates
    /\ C18_ExitRequestTerminates
    /\ [] C18_NoRequestNoTermination

C18_Witness ==
    /\ Terminated
    /\ bIsEmbedded
    /\ exitSetAt = "never"
    /\ gatePassed = "attached"
    /\ calls.init = 1
    /\ calls.tick = 0

----------------------------------------------------------------------------
\* C19: EngineExit raises the exit request before GEngineLoop.Exit is
\* entered, whether or not a request is pending already, so the flag is
\* true whenever GEngineLoop.Exit has been entered and in the Terminated
\* state of every non-embedded run.  The controller never clears the flag,
\* and sets it nowhere but in EngineExit: in an embedded run a true flag is
\* always another party's doing.
C19_FlagAtExit ==
    /\ pc = "EngineExit" => ENABLED EngineExit
    /\ pc = "InExit" => exitRequested
    /\ calls.loopExit > 0 => exitRequested
    /\ (Terminated /\ ~bIsEmbedded) => exitRequested
    /\ exitRequested <=> (exitSetAt # "never")
    /\ bIsEmbedded => exitSetAt \notin { "EngineExit", "InExit" }

C19_FlagStep ==
    /\ exitRequested => exitRequested'
    /\ (~exitRequested /\ exitRequested' /\ pc' # pc) =>
          (pc = "EngineExit" /\ pc' = "InExit")
    /\ (pc = "EngineExit" /\ pc' # pc) =>
          /\ exitRequested'
          /\ pc' = "InExit"
          /\ calls'.loopExit = calls.loopExit + 1

C19_ExitRaisesRequest == [] C19_FlagAtExit /\ [][C19_FlagStep]_vars

C19_Witness ==
    /\ pc = "InExit"
    /\ PreInitFailed
    /\ exitSetAt = "EngineExit"
    /\ exitRequested
    /\ calls.loopExit = 1

=============================================================================
